---- MODULE Spec2Model ----
(***************************************************************************)
(* Model of the sidekick deployment pipeline: the `launch` command         *)
(* (cmd/launch.go) and the `preview` command (cmd/preview/preview.go).     *)
(*                                                                         *)
(* One operator at a terminal runs the two commands one after the other.   *)
(* Every statement of a command's Run function that can end the process,   *)
(* touch a file, or talk to the VPS is one action; the position inside Run *)
(* is pc.  Local files and the remote host outlive a run, the locals of    *)
(* Run are reset when the next run starts.                                 *)
(*                                                                         *)
(* Strings are sequences of characters (one-character strings); a fixed    *)
(* fragment of a format string that no input can contain is kept as one    *)
(* element.  fmt.Sprintf is concatenation of its pieces.                   *)
(***************************************************************************)
EXTENDS Integers, Sequences, FiniteSets, TLC

(***************************************************************************)
(* Bounds of the model.                                                    *)
(***************************************************************************)
\* number of command invocations in one behaviour
MaxRuns == 2

(***************************************************************************)
(* Strings.                                                                *)
(***************************************************************************)
EmptyStr == <<>>

\* strings.Contains(s, " ")
ContainsSpace(s) == \E i \in DOMAIN s : s[i] = " "

\* strings.HasPrefix(s, p)
HasPrefix(s, p) == Len(s) >= Len(p) /\ SubSeq(s, 1, Len(p)) = p

\* strings.TrimSuffix(s, "\n")
TrimNewline(s) == IF Len(s) > 0 /\ s[Len(s)] = "\n" THEN SubSeq(s, 1, Len(s) - 1) ELSE s

Digit(d) == <<"0", "1", "2", "3", "4", "5", "6", "7", "8", "9">>[d + 1]

\* fmt.Sprint of an unsigned integer: its decimal digits
RECURSIVE Sprint(_)
Sprint(n) == IF n < 10 THEN <<Digit(n)>> ELSE Sprint(n \div 10) \o <<Digit(n % 10)>>

\* time.Now().Format(time.UnixDate): the instant rendered as text
FormatUnixDate(t) == <<"UnixDate">> \o Sprint(t)

(***************************************************************************)
(* Inputs: what the operator types, what the working directory holds and   *)
(* what the static configuration says.                                     *)
(***************************************************************************)
\* answers to the app name prompt
AppNameInputs == {EmptyStr, <<"a">>, <<"b">>, <<"a", " ", "b">>}

\* the operator accepts the pre-filled default of a prompt
AcceptDefault == <<"<enter>">>

\* answers to the port prompt
AppPortInputs == {AcceptDefault, EmptyStr, <<"8", "0">>}

\* answers to the domain prompt
AppDomainInputs == {AcceptDefault, <<"d", ".", "i", "o">>}

\* contents of ./Dockerfile, as lines; <<>> is also what an unreadable file gives
Dockerfiles ==
    { <<>>,
      << <<"F", "R", "O", "M", " ", "x">>,
         <<"E", "X", "P", "O", "S", "E", " ", "3", "0", "0", "0">> >> }

\* output of `git rev-parse --short HEAD`
HashOutputs == {<<"c", "1", "\n">>, <<"c", "2", "\n">>}

\* output of the git tree check script
AllGood == <<"all good", "\n">>
GitTreeOutputs == {AllGood, <<" M main.go", "\n">>}

\* serverAddress and dockerUsername of $HOME/.config/sidekick/sidekick.yaml
ServerAddresses == {<<"1", ".", "2">>, <<"3">>}
DockerUsername == <<"u">>


(***************************************************************************)
(* The descriptor model: compose document, service, routing labels.        *)
(***************************************************************************)
Network == <<"sidekick">>

\* the grave accent that quotes the host in a traefik rule
Backtick == "<grave>"

\* launch.go: the name the image is pushed under
LaunchImageName(name) == DockerUsername \o <<"/">> \o name

\* a default domain without the wildcard-DNS suffix
DefaultDomain_Bare(name, server) == name \o <<".">> \o server

\* launch.go: the default offered at the domain prompt
DefaultDomain(name, server) == name \o <<".">> \o server \o <<".", "sslip", ".", "io">>

\* launch.go: DockerService literal of the primary deployment
LaunchService(name, domain, port) ==
    [ Image |-> LaunchImageName(name),
      Labels |->
        << <<"traefik.enable=true">>,
           <<"traefik.http.routers.">> \o name \o <<".rule=Host(", Backtick>> \o domain \o <<Backtick, ")">>,
           <<"traefik.http.services.">> \o name \o <<".loadbalancer.server.port=">> \o port,
           <<"traefik.http.routers.">> \o name \o <<".tls=true">>,
           <<"traefik.http.routers.">> \o name \o <<".tls.certresolver=default">>,
           <<"traefik.docker.network=sidekick">> >>,
      Environment |-> <<>>,
      Networks |-> <<Network>> ]

\* launch.go: DockerComposeFile literal of the primary deployment
LaunchCompose(name, domain, port) ==
    [ Services |-> [s \in {name} |-> LaunchService(name, domain, port)],
      Networks |-> [n \in {Network} |-> [External |-> TRUE]] ]

\* an image tag joined with the separator of the service name
PreviewImageName_Dash(name, hash) == name \o <<"-">> \o hash

\* preview.go: imageName, serviceName, previewURL
PreviewImageName(name, hash) == name \o <<":">> \o hash
PreviewServiceName(name, hash) == name \o <<"-">> \o hash
PreviewURL(hash, url) == hash \o <<".">> \o url

\* a preview service that leaves the certificate resolver label out
PreviewService_NoResolver(cfg, hash, env) ==
    LET serviceName == PreviewServiceName(cfg.Name, hash)
        previewURL == PreviewURL(hash, cfg.Url)
    IN  [ Image |-> PreviewImageName(cfg.Name, hash),
          Labels |->
            << <<"traefik.enable=true">>,
               <<"traefik.http.routers.">> \o serviceName \o <<".rule=Host(", Backtick>>
                    \o previewURL \o <<Backtick, ")">>,
               <<"traefik.http.services.">> \o serviceName
                    \o <<".loadbalancer.server.port=">> \o Sprint(cfg.Port),
               <<"traefik.http.routers.">> \o serviceName \o <<".tls=true">>,
               <<"traefik.docker.network=sidekick">> >>,
          Environment |-> env,
          Networks |-> <<Network>> ]

\* preview.go: DockerService literal of a preview deployment
PreviewService(cfg, hash, env) ==
    LET serviceName == PreviewServiceName(cfg.Name, hash)
        previewURL == PreviewURL(hash, cfg.Url)
    IN  [ Image |-> PreviewImageName(cfg.Name, hash),
          Labels |->
            << <<"traefik.enable=true">>,
               <<"traefik.http.routers.">> \o serviceName \o <<".rule=Host(", Backtick>>
                    \o previewURL \o <<Backtick, ")">>,
               <<"traefik.http.services.">> \o serviceName
                    \o <<".loadbalancer.server.port=">> \o Sprint(cfg.Port),
               <<"traefik.http.routers.">> \o serviceName \o <<".tls=true">>,
               <<"traefik.http.routers.">> \o serviceName \o <<".tls.certresolver=default">>,
               <<"traefik.docker.network=sidekick">> >>,
          Environment |-> env,
          Networks |-> <<Network>> ]

\* preview.go: DockerComposeFile literal of a preview deployment
PreviewCompose(cfg, hash, env) ==
    [ Services |-> [s \in {PreviewServiceName(cfg.Name, hash)} |-> PreviewService(cfg, hash, env)],
      Networks |-> [n \in {Network} |-> [External |-> TRUE]] ]

(***************************************************************************)
(* The deployment record sidekick.yml.  The content of a file is <<>>      *)
(* when the file does not exist and <<document>> when it does; a YAML      *)
(* document is a function from its keys to their values.                   *)
(***************************************************************************)
NoFile == <<>>
EmptyMap == <<>>

ComposePath == "docker-compose.yaml"
EncryptedPath == "encrypted.env"
RecordPath == "sidekick.yml"
LocalPaths == {ComposePath, EncryptedPath, RecordPath}

\* zero value of the application config struct
ZeroConfig ==
    [ Name |-> EmptyStr, Image |-> EmptyStr, Port |-> 0, Url |-> EmptyStr,
      CreatedAt |-> EmptyStr, LastDeployedAt |-> EmptyStr, EnvFile |-> EmptyStr,
      PreviewEnvs |-> EmptyMap ]

\* launch.go: yaml.Marshal of the SidekickAppConfig literal, which sets four fields
MarshalLaunchConfig(name, domain, t) ==
    [ image |-> LaunchImageName(name),
      url |-> domain,
      createdAt |-> FormatUnixDate(t),
      lastDeployedAt |-> FormatUnixDate(t) ]

\* preview.go: yaml.Marshal(&appConfig)
MarshalAppConfig(cfg) ==
    [ name |-> cfg.Name, image |-> cfg.Image, port |-> cfg.Port, url |-> cfg.Url,
      createdAt |-> cfg.CreatedAt, lastDeployedAt |-> cfg.LastDeployedAt,
      env |-> [file |-> cfg.EnvFile], previewEnvironments |-> cfg.PreviewEnvs ]

Field(doc, key, default) == IF key \in DOMAIN doc THEN doc[key] ELSE default

\* utils.LoadAppConfig: a key the document lacks leaves the field at its zero value
UnmarshalAppConfig(doc) ==
    [ Name |-> Field(doc, "name", EmptyStr),
      Image |-> Field(doc, "image", EmptyStr),
      Port |-> Field(doc, "port", 0),
      Url |-> Field(doc, "url", EmptyStr),
      CreatedAt |-> Field(doc, "createdAt", EmptyStr),
      LastDeployedAt |-> Field(doc, "lastDeployedAt", EmptyStr),
      EnvFile |-> Field(Field(doc, "env", [file |-> EmptyStr]), "file", EmptyStr),
      PreviewEnvs |-> Field(doc, "previewEnvironments", EmptyMap) ]

\* the map replaced and the image of the record set to the image of the preview
WithPreviewEnv_Retag(cfg, hash, t) ==
    [ cfg EXCEPT !.Image = cfg.Name \o <<":">> \o hash,
                 !.PreviewEnvs =
                    [h \in {hash} |->
                        [ Url |-> <<"https://">> \o hash \o <<".">> \o cfg.Url,
                          Image |-> cfg.Name \o <<":">> \o hash,
                          CreatedAt |-> FormatUnixDate(t) ]] ]

\* the entry of this deploy added to the map as loaded
WithPreviewEnv_Merge(cfg, hash, t) ==
    [ cfg EXCEPT !.PreviewEnvs =
        [h \in DOMAIN cfg.PreviewEnvs \cup {hash} |->
            IF h = hash
            THEN [ Url |-> <<"https://">> \o hash \o <<".">> \o cfg.Url,
                   Image |-> cfg.Name \o <<":">> \o hash,
                   CreatedAt |-> FormatUnixDate(t) ]
            ELSE cfg.PreviewEnvs[h]] ]

\* preview.go: the map is made anew and given the one entry of this deploy
WithPreviewEnv(cfg, hash, t) ==
    [ cfg EXCEPT !.PreviewEnvs =
        [h \in {hash} |->
            [ Url |-> <<"https://">> \o PreviewURL(hash, cfg.Url),
              Image |-> PreviewImageName(cfg.Name, hash),
              CreatedAt |-> FormatUnixDate(t) ]] ]

\* a record written by an earlier deploy of an application named "a"
ExistingConfig(envFile) ==
    [ ZeroConfig EXCEPT !.Name = <<"a">>, !.Image = <<"u", "/", "a">>, !.Port = 3000,
                        !.Url = <<"a", ".", "i", "o">>, !.CreatedAt = FormatUnixDate(0),
                        !.LastDeployedAt = FormatUnixDate(0), !.EnvFile = envFile ]

\* sidekick.yml before the first invocation: absent, or left by an earlier deploy
InitialRecords ==
    { NoFile,
      <<MarshalAppConfig(ExistingConfig(EmptyStr))>>,
      <<MarshalAppConfig(ExistingConfig(<<".", "e", "n", "v">>))>> }

\* launch.go: the port offered at the prompt is the tail of the last EXPOSE line
RECURSIVE DockerfilePort(_, _)
DockerfilePort(lines, port) ==
    IF lines = <<>> THEN port
    ELSE LET line == Head(lines)
         IN  DockerfilePort(Tail(lines),
                IF HasPrefix(line, <<"E", "X", "P", "O", "S", "E">>)
                THEN SubSeq(line, Len(line) - 3, Len(line))
                ELSE port)

\* pterm text input with a default value: Enter returns the default
Show(input, default) == IF input = AcceptDefault THEN default ELSE input

\* a name check that forgets the space
ValidAppName_NonEmpty(name) == name # EmptyStr

\* launch.go: the check on the answer to the app name prompt
ValidAppName(name) == ~(name = EmptyStr \/ ContainsSpace(name))

\* launch.go: the check on the answer to the port prompt
ValidAppPort(port) == port # EmptyStr

\* a tree check that lets every output pass
GitTreeClean_Always(out) == TRUE

\* preview.go: the check on the output of the git tree script
GitTreeClean(out) == out = AllGood


\* yaml.Marshal of a DockerService
MarshalService(svc) ==
    [ image |-> svc.Image, labels |-> svc.Labels,
      environment |-> svc.Environment, networks |-> svc.Networks ]

\* yaml.Marshal(&newDockerCompose)
MarshalCompose(doc) ==
    [ services |-> [s \in DOMAIN doc.Services |-> MarshalService(doc.Services[s])],
      networks |-> [n \in DOMAIN doc.Networks |-> [external |-> doc.Networks[n].External]] ]

(***************************************************************************)
(* The remote host.  A remote path is resolved against the home directory  *)
(* of the user the command runs as, unless it begins with a slash.         *)
(***************************************************************************)
\* launch.go copies as root, preview.go logs in and copies as sidekick
LaunchUser == "root"
PreviewUser == "sidekick"
FsRoot == "/"

\* the components of a path, in order; "" and "." components are dropped
RECURSIVE Components(_, _)
Components(path, cur) ==
    LET done == IF cur = EmptyStr \/ cur = <<".">> THEN <<>> ELSE <<cur>>
    IN  IF path = EmptyStr THEN done
        ELSE IF Head(path) = "/" THEN done \o Components(Tail(path), EmptyStr)
        ELSE Components(Tail(path), Append(cur, Head(path)))

\* where a path used in a remote command or an rsync target points
Resolve(user, path) ==
    [ home |-> IF path # EmptyStr /\ Head(path) = "/" THEN FsRoot ELSE user,
      comps |-> Components(path, EmptyStr) ]

\* the directory and all the directories above it, up to the home directory
Ancestors(loc) ==
    { [home |-> loc.home, comps |-> SubSeq(loc.comps, 1, i)] : i \in 1..Len(loc.comps) }

\* is the directory there (the home directory always is)
DirExists(dirs, loc) == loc.comps = <<>> \/ loc \in dirs

\* `mkdir <path>`: an existing directory, or a missing parent, is an error
Mkdir(dirs, loc) ==
    IF loc.comps = <<>> \/ loc \in dirs THEN [err |-> "exists", dirs |-> dirs]
    ELSE IF ~DirExists(dirs, [loc EXCEPT !.comps = SubSeq(loc.comps, 1, Len(loc.comps) - 1)])
         THEN [err |-> "noparent", dirs |-> dirs]
         ELSE [err |-> "", dirs |-> dirs \cup {loc}]

\* `mkdir -p <path>`: makes what is missing, an existing directory is no error
MkdirP(dirs, loc) == [err |-> "", dirs |-> dirs \cup Ancestors(loc)]

\* a file copied into a remote directory replaces the file of that name
PutFile(rfiles, loc, name, content) ==
    { f \in rfiles : ~(f.at = loc /\ f.name = name) }
        \cup { [at |-> loc, name |-> name, content |-> content] }

HasFile(rfiles, loc, name) == \E f \in rfiles : f.at = loc /\ f.name = name

\* the services of the compose document lying in a remote directory
ServicesAt(rfiles, loc) ==
    UNION { DOMAIN f.content.services : f \in { g \in rfiles : g.at = loc /\ g.name = ComposePath } }

(***************************************************************************)
(* State.                                                                  *)
(***************************************************************************)
VARIABLES
    serverAddress,      \* static configuration: address of the VPS
    runs,               \* number of invocations so far
    now,                \* the wall clock, one tick per invocation
    cmd,                \* the command running or run last: "launch", "preview"
    pc,                 \* position in Run: a stage, or "shell" / "exited"
    exitCode,           \* exit status of the process once pc = "exited"
    appName,            \* launch: answer to the name prompt
    appPort,            \* launch: port found in the Dockerfile, then the answer
    appDomain,          \* launch: answer to the domain prompt
    appConfig,          \* preview: the loaded deployment record
    output,             \* preview: output of the git tree check
    deployHash,         \* preview: short hash of HEAD
    dockerEnvProperty,  \* preview: environment entries of the service
    sshClient,          \* "nil" or "session"
    newDockerCompose,   \* the compose document built, <<>> before
    defers,             \* the paths of the deferred os.Remove calls, in order
    files,              \* local working directory: path -> content
    remoteDirs,         \* directories on the VPS
    remoteFiles,        \* files on the VPS
    running,            \* services brought up on the VPS
    trace,              \* the stages this run has executed, with their outcome
    files0,             \* the local working directory when this run started
    lastLaunch          \* name and port of the last launch that wrote the record

locals == <<appName, appPort, appDomain, appConfig, output, deployHash,
            dockerEnvProperty, sshClient, newDockerCompose, defers>>
remote == <<remoteDirs, remoteFiles, running>>
vars == <<serverAddress, runs, now, cmd, pc, exitCode, locals, files, remote,
          trace, files0, lastLaunch>>

(***************************************************************************)
(* Control flow of Run.                                                    *)
(***************************************************************************)
\* launch.go: the statements of Run, in program order
LaunchOrder ==
    << "readConfig", "sshKeys", "dockerfile", "askName", "askPort", "askDomain",
       "marshal", "writeCompose", "login", "build", "mkdir", "rsync", "up",
       "saveRecord", "return" >>

\* preview with the image built before the compose document is written
PreviewOrder_BuildFirst ==
    << "viperInit", "loadAppConfig", "gitTreeCheck", "gitHash", "login", "handleEnv",
       "build", "marshal", "writeCompose", "imgMove", "load", "rmTar", "mkdir",
       "rsync", "up", "saveRecord", "return" >>

\* preview.go: the statements of Run, in program order
PreviewOrder ==
    << "viperInit", "loadAppConfig", "gitTreeCheck", "gitHash", "login", "handleEnv",
       "marshal", "writeCompose", "build", "imgMove", "load", "rmTar", "mkdir",
       "rsync", "up", "saveRecord", "return" >>

After(order, stage) == order[(CHOOSE i \in DOMAIN order : order[i] = stage) + 1]

Order == IF cmd = "launch" THEN LaunchOrder ELSE PreviewOrder

NoLoc == <<>>

\* a stage has run, with this error ("" for none), on this remote place
Entry(stage, err, at, arg) == [stage |-> stage, err |-> err, at |-> at, arg |-> arg]

Log(err, at) == trace' = Append(trace, Entry(pc, err, at, ""))

\* the deferred os.Remove calls run last-in first-out
RECURSIVE RunDeferred(_, _)
RunDeferred(fs, ds) ==
    IF ds = <<>> THEN fs
    ELSE RunDeferred([fs EXCEPT ![ds[Len(ds)]] = NoFile], SubSeq(ds, 1, Len(ds) - 1))

Exits(code, fs) == pc' = "exited" /\ exitCode' = code /\ files' = fs

\* an error that is looked at and then ignored: Run goes on
Panics_Ignored == pc' = After(Order, pc) /\ exitCode' = exitCode /\ files' = files

\* panic(err): deferred calls run, then the runtime exits with status 2
Panics == Exits(2, RunDeferred(files, defers))

\* return from Run: deferred calls run, main returns, status 0
Returns == Exits(0, RunDeferred(files, defers))

\* os.Exit(code), log.Fatal: the process ends at once, deferred calls do not run
OsExit(code) == Exits(code, files)

\* go on to the next statement
Continues == pc' = After(Order, pc) /\ exitCode' = exitCode

\* an rsync whose error is looked at: a failed copy panics
AfterRsync_Checked(ok) ==
    IF ok THEN pc' = After(Order, pc) /\ exitCode' = exitCode /\ files' = files
    ELSE Panics

\* rsync.Run(): the error is not looked at, Run goes on whatever the outcome
AfterRsync(ok) == Continues /\ files' = files

NoExit == 0 - 1

Init ==
    /\ serverAddress \in ServerAddresses
    /\ runs = 0
    /\ now = 0
    /\ cmd = "none"
    /\ pc = "shell"
    /\ exitCode = NoExit
    /\ appName = EmptyStr
    /\ appPort = EmptyStr
    /\ appDomain = EmptyStr
    /\ appConfig = ZeroConfig
    /\ output = EmptyStr
    /\ deployHash = EmptyStr
    /\ dockerEnvProperty = <<>>
    /\ sshClient = "nil"
    /\ newDockerCompose = <<>>
    /\ defers = <<>>
    /\ \E rec \in InitialRecords :
          files = [p \in LocalPaths |-> IF p = RecordPath THEN rec ELSE NoFile]
    /\ remoteDirs = {}
    /\ remoteFiles = {}
    /\ running = {}
    /\ trace = <<>>
    /\ files0 = files
    /\ lastLaunch = <<>>

\* the operator starts a command; the locals of Run are fresh
Begin ==
    /\ pc \in {"shell", "exited"}
    /\ runs < MaxRuns
    /\ runs' = runs + 1
    /\ now' = now + 1
    /\ exitCode' = NoExit
    /\ appName' = EmptyStr
    /\ appPort' = EmptyStr
    /\ appDomain' = EmptyStr
    /\ appConfig' = ZeroConfig
    /\ output' = EmptyStr
    /\ deployHash' = EmptyStr
    /\ dockerEnvProperty' = <<>>
    /\ sshClient' = "nil"
    /\ newDockerCompose' = <<>>
    /\ defers' = <<>>
    /\ trace' = <<>>
    /\ files0' = files
    /\ UNCHANGED <<serverAddress, files, remote, lastLaunch>>

StartLaunch ==
    /\ cmd' = "launch"
    /\ pc' = LaunchOrder[1]
    /\ Begin

StartPreview ==
    /\ cmd' = "preview"
    /\ pc' = PreviewOrder[1]
    /\ Begin

At(c, stage) == cmd = c /\ pc = stage


(***************************************************************************)
(* launch (cmd/launch.go).                                                 *)
(***************************************************************************)
\* viper.ReadInConfig: a missing static configuration panics
Launch_ReadConfig ==
    /\ At("launch", "readConfig")
    /\ \E ok \in BOOLEAN :
        /\ Log(IF ok THEN "" ELSE "config", NoLoc)
        /\ IF ok THEN Continues /\ UNCHANGED files ELSE Panics
    /\ UNCHANGED <<serverAddress, runs, now, cmd, locals, remote, files0, lastLaunch>>

\* the ssh key script
Launch_SshKeys ==
    /\ At("launch", "sshKeys")
    /\ \E ok \in BOOLEAN :
        /\ Log(IF ok THEN "" ELSE "script", NoLoc)
        /\ IF ok THEN Continues /\ UNCHANGED files ELSE Panics
    /\ UNCHANGED <<serverAddress, runs, now, cmd, locals, remote, files0, lastLaunch>>

\* the Dockerfile is scanned for a port; nothing here ends the run
Launch_Dockerfile ==
    /\ At("launch", "dockerfile")
    /\ \E df \in Dockerfiles : appPort' = DockerfilePort(df, EmptyStr)
    /\ Log("", NoLoc)
    /\ Continues
    /\ UNCHANGED <<serverAddress, runs, now, cmd, appName, appDomain, appConfig, output,
                   deployHash, dockerEnvProperty, sshClient, newDockerCompose, defers,
                   files, remote, files0, lastLaunch>>

\* the app name prompt: a name that is not url friendly ends the process, status 0
Launch_AskName ==
    /\ At("launch", "askName")
    /\ \E in \in AppNameInputs :
        /\ appName' = in
        /\ Log(IF ValidAppName(in) THEN "" ELSE "input", NoLoc)
        /\ IF ValidAppName(in) THEN Continues /\ UNCHANGED files ELSE OsExit(0)
    /\ UNCHANGED <<serverAddress, runs, now, cmd, appPort, appDomain, appConfig, output,
                   deployHash, dockerEnvProperty, sshClient, newDockerCompose, defers,
                   remote, files0, lastLaunch>>

\* the port prompt, pre-filled with the Dockerfile's port: no port ends the process
Launch_AskPort ==
    /\ At("launch", "askPort")
    /\ \E in \in AppPortInputs :
        LET port == Show(in, appPort)
        IN  /\ appPort' = port
            /\ Log(IF ValidAppPort(port) THEN "" ELSE "input", NoLoc)
            /\ IF ValidAppPort(port) THEN Continues /\ UNCHANGED files ELSE OsExit(0)
    /\ UNCHANGED <<serverAddress, runs, now, cmd, appName, appDomain, appConfig, output,
                   deployHash, dockerEnvProperty, sshClient, newDockerCompose, defers,
                   remote, files0, lastLaunch>>

\* the domain prompt, pre-filled with the default domain
Launch_AskDomain ==
    /\ At("launch", "askDomain")
    /\ \E in \in AppDomainInputs :
        /\ appDomain' = Show(in, DefaultDomain(appName, serverAddress))
        /\ trace' = Append(trace, Entry(pc, "", NoLoc,
                                        IF in = AcceptDefault THEN "default" ELSE "typed"))
    /\ Continues
    /\ UNCHANGED <<serverAddress, runs, now, cmd, appName, appPort, appConfig, output,
                   deployHash, dockerEnvProperty, sshClient, newDockerCompose, defers,
                   files, remote, files0, lastLaunch>>

\* the compose document is built and marshalled; an error is printed and Run returns
Launch_Marshal ==
    /\ At("launch", "marshal")
    /\ newDockerCompose' = <<LaunchCompose(appName, appDomain, appPort)>>
    /\ \E ok \in BOOLEAN :
        /\ Log(IF ok THEN "" ELSE "marshal", NoLoc)
        /\ IF ok THEN Continues /\ UNCHANGED files ELSE Returns
    /\ UNCHANGED <<serverAddress, runs, now, cmd, appName, appPort, appDomain, appConfig,
                   output, deployHash, dockerEnvProperty, sshClient, defers, remote,
                   files0, lastLaunch>>

\* os.WriteFile("docker-compose.yaml") and, after it, the deferred os.Remove
Launch_WriteCompose ==
    /\ At("launch", "writeCompose")
    /\ \E ok \in BOOLEAN :
        /\ Log(IF ok THEN "" ELSE "write", NoLoc)
        /\ IF ok
           THEN /\ files' = [files EXCEPT ![ComposePath] =
                                <<MarshalCompose(newDockerCompose[1])>>]
                /\ defers' = Append(defers, ComposePath)
                /\ Continues
           ELSE Returns /\ UNCHANGED defers
    /\ UNCHANGED <<serverAddress, runs, now, cmd, appName, appPort, appDomain, appConfig,
                   output, deployHash, dockerEnvProperty, sshClient, newDockerCompose,
                   remote, files0, lastLaunch>>

\* utils.LoginStage: no session panics
Launch_Login ==
    /\ At("launch", "login")
    /\ \E ok \in BOOLEAN :
        /\ Log(IF ok THEN "" ELSE "login", NoLoc)
        /\ IF ok
           THEN sshClient' = "session" /\ Continues /\ UNCHANGED files
           ELSE Panics /\ UNCHANGED sshClient
    /\ UNCHANGED <<serverAddress, runs, now, cmd, appName, appPort, appDomain, appConfig,
                   output, deployHash, dockerEnvProperty, newDockerCompose, defers,
                   remote, files0, lastLaunch>>

\* the docker build-and-push script: a failure panics
Launch_Build ==
    /\ At("launch", "build")
    /\ \E ok \in BOOLEAN :
        /\ Log(IF ok THEN "" ELSE "build", NoLoc)
        /\ IF ok THEN Continues /\ UNCHANGED files ELSE Panics
    /\ UNCHANGED <<serverAddress, runs, now, cmd, locals, remote, files0, lastLaunch>>

\* RunCommand("mkdir <appName>"): a failed command panics
Launch_Mkdir ==
    /\ At("launch", "mkdir")
    /\ \E delivered \in BOOLEAN :
        LET loc == Resolve(LaunchUser, appName)
            res == Mkdir(remoteDirs, loc)
            err == IF delivered THEN res.err ELSE "remote"
        IN  /\ Log(err, loc)
            /\ IF err = ""
               THEN remoteDirs' = res.dirs /\ Continues /\ UNCHANGED files
               ELSE Panics /\ UNCHANGED remoteDirs
    /\ UNCHANGED <<serverAddress, runs, now, cmd, locals, remoteFiles, running, files0, lastLaunch>>

\* rsync docker-compose.yaml root@<server>:./<appName>; its error is dropped
Launch_Rsync ==
    /\ At("launch", "rsync")
    /\ \E delivered \in BOOLEAN :
        LET loc == Resolve(LaunchUser, <<".", "/">> \o appName)
            ok == delivered /\ DirExists(remoteDirs, loc) /\ files[ComposePath] # NoFile
        IN  /\ Log(IF ok THEN "" ELSE "rsync", loc)
            /\ remoteFiles' = IF ok
                              THEN PutFile(remoteFiles, loc, ComposePath, files[ComposePath][1])
                              ELSE remoteFiles
            /\ AfterRsync(ok)
    /\ UNCHANGED <<serverAddress, runs, now, cmd, locals, remoteDirs, running,
                   files0, lastLaunch>>

\* RunCommand("cd <appName> && docker compose -p sidekick up -d"): a failure panics
Launch_Up ==
    /\ At("launch", "up")
    /\ \E delivered \in BOOLEAN :
        LET loc == Resolve(LaunchUser, appName)
            ok == delivered /\ DirExists(remoteDirs, loc) /\ HasFile(remoteFiles, loc, ComposePath)
        IN  /\ Log(IF ok THEN "" ELSE "up", loc)
            /\ IF ok
               THEN /\ running' = running \cup ServicesAt(remoteFiles, loc)
                    /\ Continues /\ UNCHANGED files
               ELSE Panics /\ UNCHANGED running
    /\ UNCHANGED <<serverAddress, runs, now, cmd, locals, remoteDirs, remoteFiles, files0, lastLaunch>>

\* the record is marshalled and written; neither error is looked at
Launch_SaveRecord ==
    /\ At("launch", "saveRecord")
    /\ \E res \in {"", "marshal", "write"} :
        /\ Log(res, NoLoc)
        /\ files' = [files EXCEPT ![RecordPath] =
                        CASE res = "" -> <<MarshalLaunchConfig(appName, appDomain, now)>>
                          [] res = "marshal" -> <<EmptyMap>>
                          [] res = "write" -> @]
        /\ lastLaunch' = IF res = "" THEN <<[name |-> appName, port |-> appPort]>>
                          ELSE lastLaunch
    /\ Continues
    /\ UNCHANGED <<serverAddress, runs, now, cmd, locals, remote, files0>>

\* the end of Run
Launch_Return ==
    /\ At("launch", "return")
    /\ Log("", NoLoc)
    /\ Returns
    /\ UNCHANGED <<serverAddress, runs, now, cmd, locals, remote, files0, lastLaunch>>

Launch ==
    \/ Launch_ReadConfig \/ Launch_SshKeys \/ Launch_Dockerfile \/ Launch_AskName
    \/ Launch_AskPort \/ Launch_AskDomain \/ Launch_Marshal \/ Launch_WriteCompose
    \/ Launch_Login \/ Launch_Build \/ Launch_Mkdir \/ Launch_Rsync \/ Launch_Up
    \/ Launch_SaveRecord \/ Launch_Return

(***************************************************************************)
(* preview (cmd/preview/preview.go).                                       *)
(***************************************************************************)
\* utils.LoadAppConfig: no readable sidekick.yml is an error
LoadAppConfig(content) ==
    IF content = NoFile THEN [err |-> "load", cfg |-> ZeroConfig]
    ELSE [err |-> "", cfg |-> UnmarshalAppConfig(content[1])]

\* utils.HandleEnvFile: the entries it adds to the service's environment
EnvEntries == << <<"K", "=", "$", "{", "K", "}">> >>

\* utils.HandleEnvFile: the encrypted artifact it leaves in the working directory
Encrypted(envFile) == [sops |-> envFile]

\* a preview directory that is the directory of the app itself
PreviewDir_Shared(name, hash) == name

\* the remote directory of a preview deployment, as the commands spell it
PreviewDir(name, hash) == name \o <<"/", "p", "r", "e", "v", "i", "e", "w", "/">> \o hash

\* preview.go: is an env file configured (the test before HandleEnvFile)
EnvFileConfigured(cfg) == cfg.EnvFile # EmptyStr

\* an activation that never unwraps secrets
SecretWrapped_Never(cfg) == FALSE

\* preview.go: is the activation wrapped in sops exec-env (the test before the
\* second rsync)
SecretWrapped(cfg) == cfg.EnvFile # EmptyStr

\* utils.ViperInit: no static configuration ends the process, status 1
Preview_ViperInit ==
    /\ At("preview", "viperInit")
    /\ \E ok \in BOOLEAN :
        /\ Log(IF ok THEN "" ELSE "config", NoLoc)
        /\ IF ok THEN Continues /\ UNCHANGED files ELSE OsExit(1)
    /\ UNCHANGED <<serverAddress, runs, now, cmd, locals, remote, files0, lastLaunch>>

\* the deployment record is loaded; log.Fatalln when it cannot be
Preview_LoadAppConfig ==
    /\ At("preview", "loadAppConfig")
    /\ LET res == LoadAppConfig(files[RecordPath])
       IN  /\ appConfig' = res.cfg
           /\ Log(res.err, NoLoc)
           /\ IF res.err = "" THEN Continues /\ UNCHANGED files ELSE OsExit(1)
    /\ UNCHANGED <<serverAddress, runs, now, cmd, appName, appPort, appDomain, output,
                   deployHash, dockerEnvProperty, sshClient, newDockerCompose, defers,
                   remote, files0, lastLaunch>>

\* the git tree check: anything but "all good" ends the process, status 1
Preview_GitTreeCheck ==
    /\ At("preview", "gitTreeCheck")
    /\ \E out \in GitTreeOutputs :
        /\ output' = out
        /\ Log(IF GitTreeClean(out) THEN "" ELSE "dirty", NoLoc)
        /\ IF GitTreeClean(out) THEN Continues /\ UNCHANGED files ELSE OsExit(1)
    /\ UNCHANGED <<serverAddress, runs, now, cmd, appName, appPort, appDomain, appConfig,
                   deployHash, dockerEnvProperty, sshClient, newDockerCompose, defers,
                   remote, files0, lastLaunch>>

\* git rev-parse --short HEAD, its trailing newline trimmed; an error panics
Preview_GitHash ==
    /\ At("preview", "gitHash")
    /\ \/ \E out \in HashOutputs :
            /\ deployHash' = TrimNewline(out)
            /\ Log("", NoLoc)
            /\ Continues /\ UNCHANGED files
       \/ /\ Log("git", NoLoc)
          /\ Panics /\ UNCHANGED deployHash
    /\ UNCHANGED <<serverAddress, runs, now, cmd, appName, appPort, appDomain, appConfig,
                   output, dockerEnvProperty, sshClient, newDockerCompose, defers,
                   remote, files0, lastLaunch>>

\* utils.Login: no session panics
Preview_Login ==
    /\ At("preview", "login")
    /\ \E ok \in BOOLEAN :
        /\ Log(IF ok THEN "" ELSE "login", NoLoc)
        /\ IF ok
           THEN sshClient' = "session" /\ Continues /\ UNCHANGED files
           ELSE Panics /\ UNCHANGED sshClient
    /\ UNCHANGED <<serverAddress, runs, now, cmd, appName, appPort, appDomain, appConfig,
                   output, deployHash, dockerEnvProperty, newDockerCompose, defers,
                   remote, files0, lastLaunch>>

\* HandleEnvFile when an env file is configured (an error panics), then the
\* deferred os.Remove("encrypted.env"), configured or not.  A failed
\* HandleEnvFile is taken to leave no artifact behind.
Preview_HandleEnv ==
    /\ At("preview", "handleEnv")
    /\ IF EnvFileConfigured(appConfig)
       THEN \E ok \in BOOLEAN :
            /\ trace' = Append(trace, Entry(pc, IF ok THEN "" ELSE "env", NoLoc, "encrypt"))
            /\ IF ok
               THEN /\ files' = [files EXCEPT ![EncryptedPath] =
                                    <<Encrypted(appConfig.EnvFile)>>]
                    /\ dockerEnvProperty' = EnvEntries
                    /\ defers' = Append(defers, EncryptedPath)
                    /\ Continues
               ELSE Panics /\ UNCHANGED <<dockerEnvProperty, defers>>
       ELSE /\ Log("", NoLoc)
            /\ defers' = Append(defers, EncryptedPath)
            /\ Continues
            /\ UNCHANGED <<files, dockerEnvProperty>>
    /\ UNCHANGED <<serverAddress, runs, now, cmd, appName, appPort, appDomain, appConfig,
                   output, deployHash, sshClient, newDockerCompose, remote, files0, lastLaunch>>

\* the compose document is built and marshalled; an error is printed and Run returns
Preview_Marshal ==
    /\ At("preview", "marshal")
    /\ newDockerCompose' = <<PreviewCompose(appConfig, deployHash, dockerEnvProperty)>>
    /\ \E ok \in BOOLEAN :
        /\ Log(IF ok THEN "" ELSE "marshal", NoLoc)
        /\ IF ok THEN Continues /\ UNCHANGED files ELSE Returns
    /\ UNCHANGED <<serverAddress, runs, now, cmd, appName, appPort, appDomain, appConfig,
                   output, deployHash, dockerEnvProperty, sshClient, defers, remote,
                   files0, lastLaunch>>

\* os.WriteFile("docker-compose.yaml") and, after it, the deferred os.Remove
Preview_WriteCompose ==
    /\ At("preview", "writeCompose")
    /\ \E ok \in BOOLEAN :
        /\ Log(IF ok THEN "" ELSE "write", NoLoc)
        /\ IF ok
           THEN /\ files' = [files EXCEPT ![ComposePath] =
                                <<MarshalCompose(newDockerCompose[1])>>]
                /\ defers' = Append(defers, ComposePath)
                /\ Continues
           ELSE Returns /\ UNCHANGED defers
    /\ UNCHANGED <<serverAddress, runs, now, cmd, appName, appPort, appDomain, appConfig,
                   output, deployHash, dockerEnvProperty, sshClient, newDockerCompose,
                   remote, files0, lastLaunch>>

\* the docker build-and-save script: a failure is reported and os.Exit(1) called
Preview_Build ==
    /\ At("preview", "build")
    /\ \E ok \in BOOLEAN :
        /\ Log(IF ok THEN "" ELSE "build", NoLoc)
        /\ IF ok THEN Continues /\ UNCHANGED files ELSE OsExit(1)
    /\ UNCHANGED <<serverAddress, runs, now, cmd, locals, remote, files0, lastLaunch>>

\* the image move script: log.Fatalf on failure
Preview_ImgMove ==
    /\ At("preview", "imgMove")
    /\ \E ok \in BOOLEAN :
        /\ Log(IF ok THEN "" ELSE "move", NoLoc)
        /\ IF ok THEN Continues /\ UNCHANGED files ELSE OsExit(1)
    /\ UNCHANGED <<serverAddress, runs, now, cmd, locals, remote, files0, lastLaunch>>

\* RunCommand("cd <name> && docker load -i <name>-<hash>.tar"): log.Fatal on failure
Preview_Load ==
    /\ At("preview", "load")
    /\ \E ok \in BOOLEAN :
        /\ Log(IF ok THEN "" ELSE "remote", Resolve(PreviewUser, appConfig.Name))
        /\ IF ok THEN Continues /\ UNCHANGED files ELSE OsExit(1)
    /\ UNCHANGED <<serverAddress, runs, now, cmd, locals, remote, files0, lastLaunch>>

\* RunCommand("cd <name> && rm <name>-<hash>.tar"): log.Fatal on failure
Preview_RmTar ==
    /\ At("preview", "rmTar")
    /\ \E ok \in BOOLEAN :
        /\ Log(IF ok THEN "" ELSE "remote", Resolve(PreviewUser, appConfig.Name))
        /\ IF ok THEN Continues /\ UNCHANGED files ELSE OsExit(1)
    /\ UNCHANGED <<serverAddress, runs, now, cmd, locals, remote, files0, lastLaunch>>

\* RunCommand("mkdir -p <name>/preview/<hash>"): a failed command panics
Preview_Mkdir ==
    /\ At("preview", "mkdir")
    /\ \E delivered \in BOOLEAN :
        LET loc == Resolve(PreviewUser, PreviewDir(appConfig.Name, deployHash))
            res == MkdirP(remoteDirs, loc)
            err == IF delivered THEN res.err ELSE "remote"
        IN  /\ Log(err, loc)
            /\ IF err = ""
               THEN remoteDirs' = res.dirs /\ Continues /\ UNCHANGED files
               ELSE Panics /\ UNCHANGED remoteDirs
    /\ UNCHANGED <<serverAddress, runs, now, cmd, locals, remoteFiles, running, files0, lastLaunch>>

\* rsync docker-compose.yaml sidekick@<server>:./<name>/preview/<hash>; error dropped
Preview_Rsync ==
    /\ At("preview", "rsync")
    /\ \E delivered \in BOOLEAN :
        LET loc == Resolve(PreviewUser, <<".", "/">> \o PreviewDir(appConfig.Name, deployHash))
            ok == delivered /\ DirExists(remoteDirs, loc) /\ files[ComposePath] # NoFile
        IN  /\ Log(IF ok THEN "" ELSE "rsync", loc)
            /\ remoteFiles' = IF ok
                              THEN PutFile(remoteFiles, loc, ComposePath, files[ComposePath][1])
                              ELSE remoteFiles
            /\ AfterRsync(ok)
    /\ UNCHANGED <<serverAddress, runs, now, cmd, locals, remoteDirs, running,
                   files0, lastLaunch>>

\* with an env file: rsync encrypted.env (error dropped), then the compose project
\* is brought up under sops exec-env; without: it is brought up plainly.  A failed
\* command panics.
Preview_Up ==
    /\ At("preview", "up")
    /\ \E synced \in BOOLEAN, delivered \in BOOLEAN :
        LET wrapped == SecretWrapped(appConfig)
            target == Resolve(PreviewUser, <<".", "/">> \o PreviewDir(appConfig.Name, deployHash))
            syncOk == synced /\ DirExists(remoteDirs, target) /\ files[EncryptedPath] # NoFile
            rfiles == IF wrapped /\ syncOk
                      THEN PutFile(remoteFiles, target, EncryptedPath, files[EncryptedPath][1])
                      ELSE remoteFiles
            loc == Resolve(PreviewUser, PreviewDir(appConfig.Name, deployHash))
            ok == /\ delivered
                  /\ DirExists(remoteDirs, loc)
                  /\ HasFile(rfiles, loc, ComposePath)
                  /\ wrapped => HasFile(rfiles, loc, EncryptedPath)
        IN  /\ wrapped \/ synced
            /\ trace' = trace
                  \o (IF wrapped
                      THEN <<Entry("rsyncEnv", IF syncOk THEN "" ELSE "rsync", target, "")>>
                      ELSE <<>>)
                  \o <<Entry(pc, IF ok THEN "" ELSE "up", loc,
                             IF wrapped THEN "sops" ELSE "plain")>>
            /\ remoteFiles' = rfiles
            /\ IF ok
               THEN /\ running' = running \cup ServicesAt(rfiles, loc)
                    /\ Continues /\ UNCHANGED files
               ELSE Panics /\ UNCHANGED running
    /\ UNCHANGED <<serverAddress, runs, now, cmd, locals, remoteDirs, files0, lastLaunch>>

\* the preview map is replaced, the record marshalled and written; no error is
\* looked at
Preview_SaveRecord ==
    /\ At("preview", "saveRecord")
    /\ appConfig' = WithPreviewEnv(appConfig, deployHash, now)
    /\ \E res \in {"", "marshal", "write"} :
        /\ Log(res, NoLoc)
        /\ files' = [files EXCEPT ![RecordPath] =
                        CASE res = "" -> <<MarshalAppConfig(appConfig')>>
                          [] res = "marshal" -> <<EmptyMap>>
                          [] res = "write" -> @]
    /\ Continues
    /\ UNCHANGED <<serverAddress, runs, now, cmd, appName, appPort, appDomain, output,
                   deployHash, dockerEnvProperty, sshClient, newDockerCompose, defers,
                   remote, files0, lastLaunch>>

\* the end of Run
Preview_Return ==
    /\ At("preview", "return")
    /\ Log("", NoLoc)
    /\ Returns
    /\ UNCHANGED <<serverAddress, runs, now, cmd, locals, remote, files0, lastLaunch>>

Preview ==
    \/ Preview_ViperInit \/ Preview_LoadAppConfig \/ Preview_GitTreeCheck
    \/ Preview_GitHash \/ Preview_Login \/ Preview_HandleEnv \/ Preview_Marshal
    \/ Preview_WriteCompose \/ Preview_Build \/ Preview_ImgMove \/ Preview_Load
    \/ Preview_RmTar \/ Preview_Mkdir \/ Preview_Rsync \/ Preview_Up
    \/ Preview_SaveRecord \/ Preview_Return

Next == StartLaunch \/ StartPreview \/ Launch \/ Preview

Spec == Init /\ [][Next]_vars


(***************************************************************************)
(* Properties.                                                             *)
(***************************************************************************)
Exited == pc = "exited"

\* the stage was entered in this run
Ran(stage) == \E i \in DOMAIN trace : trace[i].stage = stage

\* the stage was entered in this run and did not fail
Succeeded(stage) == \E i \in DOMAIN trace : trace[i].stage = stage /\ trace[i].err = ""

\* whenever stage b was entered, stage a had succeeded before
Precedes(a, b) ==
    \A i \in DOMAIN trace :
        trace[i].stage = b =>
            \E j \in 1..(i - 1) : trace[j].stage = a /\ trace[j].err = ""

\* C1: once the process has terminated, however the run ended, neither
\* docker-compose.yaml nor encrypted.env is left in the working directory.
C1_TransientFilesAbsent ==
    Exited => files[ComposePath] = NoFile /\ files[EncryptedPath] = NoFile

\* C2: creating the remote target directory never fails because the directory
\* is already there, in launch and in preview.
C2_MkdirIdempotent ==
    \A i \in DOMAIN trace : trace[i].stage = "mkdir" => trace[i].err # "exists"

\* C3 as stated: docker-compose.yaml is written only after login and the image
\* build have succeeded.
C3_ComposeAfterLoginAndBuild ==
    \A i \in DOMAIN trace :
        trace[i].stage = "writeCompose" /\ trace[i].err = "" =>
            /\ \E j \in 1..(i - 1) : trace[j].stage = "login" /\ trace[j].err = ""
            /\ \E j \in 1..(i - 1) : trace[j].stage = "build" /\ trace[j].err = ""

\* C3 as amended: preview writes docker-compose.yaml only after login has
\* succeeded, launch logs in only after it has written docker-compose.yaml, and
\* both invoke the image build only after docker-compose.yaml has been written.
C3_ComposeBeforeBuild ==
    /\ cmd = "preview" => Precedes("login", "writeCompose")
    /\ cmd = "launch" => Precedes("writeCompose", "login")
    /\ Precedes("writeCompose", "build")
    /\ Ran("build") => files[ComposePath] # NoFile \/ Exited

\* C3 witness: a preview and a launch that have built the image
C3_Witness == Succeeded("build") /\ Succeeded("writeCompose") /\ Succeeded("login")


\* the record this run loaded, or would load, from sidekick.yml
Loaded == UnmarshalAppConfig(files0[RecordPath][1])

\* the record now in sidekick.yml
Persisted == files[RecordPath][1]

\* this run wrote sidekick.yml and the write went through
Saved == Succeeded("saveRecord")

\* the one service of the compose document this run built
BuiltService == newDockerCompose[1].Services[CHOOSE s \in DOMAIN newDockerCompose[1].Services : TRUE]

\* C4: a preview of revision h of the app named n in the record uses service
\* name n-h, image tag n:h and host h.<url of the record>, and once it has
\* written the record, previewEnvironments[h].image is n:h.
C4_PreviewNaming ==
    cmd = "preview" /\ newDockerCompose # <<>> =>
        LET n == Loaded.Name
            h == deployHash
        IN  /\ DOMAIN newDockerCompose[1].Services = {n \o <<"-">> \o h}
            /\ BuiltService.Image = n \o <<":">> \o h
            /\ BuiltService.Labels[2] =
                   <<"traefik.http.routers.">> \o n \o <<"-">> \o h \o <<".rule=Host(", Backtick>>
                       \o h \o <<".">> \o Loaded.Url \o <<Backtick, ")">>
            /\ Saved =>
                   /\ h \in DOMAIN Persisted.previewEnvironments
                   /\ Persisted.previewEnvironments[h].Image = n \o <<":">> \o h

\* C4 witness: a preview of a named app has written the record
C4_Witness ==
    cmd = "preview" /\ Saved /\ Exited /\ exitCode = 0 /\ Loaded.Name # EmptyStr

\* C5: once a preview deploy has written the record, previewEnvironments holds
\* the revision just deployed and nothing else.
C5_PreviewMapReplaced ==
    cmd = "preview" /\ Saved =>
        DOMAIN Persisted.previewEnvironments = {deployHash}

\* C5 witness: the record held another revision before this preview replaced it
C5_Witness ==
    /\ cmd = "preview" /\ Saved /\ Exited
    /\ \E h \in DOMAIN Loaded.PreviewEnvs : h # deployHash

\* the stages of preview that come before the git tree check ends
BeforeTreeCheck == {"viperInit", "loadAppConfig", "gitTreeCheck"}

\* C6: a preview started in an unclean working tree ends with a non-zero status
\* with no remote session, no local file written and the record as it was.
C6_UncleanTreeAborts ==
    cmd = "preview" /\ output # EmptyStr /\ output # AllGood =>
        /\ Exited /\ exitCode # 0
        /\ sshClient = "nil"
        /\ \A i \in DOMAIN trace : trace[i].stage \in BeforeTreeCheck
        /\ files = files0

\* C6 witness: a preview has ended on an unclean tree
C6_Witness == cmd = "preview" /\ Exited /\ output # EmptyStr /\ output # AllGood

\* the stages of launch up to the port prompt
BeforeDomainPrompt == {"readConfig", "sshKeys", "dockerfile", "askName", "askPort"}

\* the answer to the name prompt is not url friendly, or the port is empty
BadLaunchInput ==
    \/ Ran("askName") /\ (appName = EmptyStr \/ ContainsSpace(appName))
    \/ Ran("askPort") /\ appPort = EmptyStr

\* C7: a launch given an empty name, a name with a space, or an empty port ends
\* with no compose document, no remote session, no build and the record as it was.
C7_BadInputNoEffect ==
    cmd = "launch" /\ BadLaunchInput =>
        /\ Exited
        /\ newDockerCompose = <<>>
        /\ sshClient = "nil"
        /\ \A i \in DOMAIN trace : trace[i].stage \in BeforeDomainPrompt
        /\ files = files0

\* C7 witness: a launch has ended on a name with a space, another on an empty port
C7_Witness ==
    cmd = "launch" /\ Exited /\ BadLaunchInput
        /\ (ContainsSpace(appName) \/ (Ran("askPort") /\ appPort = EmptyStr))


\* the errors of the pipeline stages: everything but a refused prompt answer, an
\* unclean tree and a dropped rsync error
PipelineErrors ==
    { "config", "script", "load", "git", "login", "env", "marshal", "write", "build",
      "move", "remote", "exists", "noparent", "up" }

\* C8: a run in which a pipeline stage failed (descriptor marshal or write, build,
\* remote command, record marshal or write, ...) does not exit with status 0.
C8_FailureExitsNonZero ==
    Exited /\ exitCode = 0 => \A i \in DOMAIN trace : trace[i].err \notin PipelineErrors

\* the operator took the default at the domain prompt of this launch
TookDefaultDomain ==
    cmd = "launch" /\ \E i \in DOMAIN trace : trace[i].stage = "askDomain" /\ trace[i].arg = "default"

\* the host of a launch is used in the host rule and stored as the record's url
HostIs(host) ==
    /\ appDomain = host
    /\ newDockerCompose # <<>> =>
           BuiltService.Labels[2] =
               <<"traefik.http.routers.">> \o appName \o <<".rule=Host(", Backtick>>
                   \o host \o <<Backtick, ")">>
    /\ Saved => Persisted.url = host

\* C9 as stated: with the default taken at the domain prompt, the host of a launch
\* is <name>.<serverAddress>.
C9_DefaultHostIsNameDotServer ==
    TookDefaultDomain => HostIs(appName \o <<".">> \o serverAddress)

\* C9 as amended: with the default taken at the domain prompt, the host of a launch
\* is <name>.<serverAddress>.sslip.io.
C9_DefaultHostIsSslip ==
    TookDefaultDomain =>
        HostIs(appName \o <<".">> \o serverAddress \o <<".", "sslip", ".", "io">>)

\* C9 witness: a launch with the default domain has written the record
C9_Witness == TookDefaultDomain /\ Saved /\ Exited /\ exitCode = 0

\* C10: a launch that wrote the record stored the name and the port it was given,
\* and a preview that follows it names its service <launched name>-<hash>, works
\* in <launched name>/preview/<hash> and routes to the launched port.
C10_LaunchPersistsNameAndPort ==
    /\ cmd = "launch" /\ Saved =>
           /\ UnmarshalAppConfig(Persisted).Name = appName
           /\ Sprint(UnmarshalAppConfig(Persisted).Port) = appPort
    /\ cmd = "preview" /\ lastLaunch # <<>> /\ newDockerCompose # <<>> =>
           LET n == lastLaunch[1].name
               svc == n \o <<"-">> \o deployHash
           IN  /\ DOMAIN newDockerCompose[1].Services = {svc}
               /\ BuiltService.Labels[3] =
                      <<"traefik.http.services.">> \o svc
                          \o <<".loadbalancer.server.port=">> \o lastLaunch[1].port
               /\ \A i \in DOMAIN trace :
                      trace[i].stage = "mkdir" =>
                          trace[i].at = Resolve(PreviewUser, PreviewDir(n, deployHash))


\* the stages whose failure the pipeline treats as fatal
FatalStages == {"login", "build", "imgMove", "load", "rmTar", "mkdir", "up"}

\* C11: when login, build, image delivery, remote directory creation or remote
\* activation fails, nothing runs after it, the process has ended and sidekick.yml
\* is as it was; the record is written only after remote activation succeeded.
C11_FailureAborts ==
    /\ \A i \in DOMAIN trace :
           trace[i].stage \in FatalStages /\ trace[i].err # "" =>
               /\ i = Len(trace)
               /\ Exited /\ exitCode # 0
               /\ files[RecordPath] = files0[RecordPath]
    /\ Precedes("up", "saveRecord")

\* C11 witness: a run has ended on a failed remote directory creation, another on
\* a failed activation
C11_Witness ==
    /\ Exited
    /\ trace[Len(trace)].stage \in {"mkdir", "up"}
    /\ trace[Len(trace)].err # ""

\* C12: a run in which marshalling the record or writing sidekick.yml failed does
\* not go on to report success and does not end with status 0.
C12_RecordFailureFatal ==
    (\E i \in DOMAIN trace : trace[i].stage = "saveRecord" /\ trace[i].err # "") =>
        /\ pc # "return"
        /\ ~Ran("return")
        /\ Exited => exitCode # 0


\* whenever stage b was entered, stage a had been entered before
Follows(a, b) ==
    \A i \in DOMAIN trace :
        trace[i].stage = b => \E j \in 1..(i - 1) : trace[j].stage = a

\* the stages of one run come in the order of the pipeline
StagesInSequence ==
    /\ \A s \in {"load", "rmTar", "mkdir", "rsync", "up"} : Precedes("login", s)
    /\ Precedes("build", "mkdir")
    /\ cmd = "preview" => Precedes("imgMove", "mkdir") /\ Precedes("rmTar", "mkdir")
    /\ Precedes("mkdir", "rsync")
    /\ Follows("rsync", "up")
    /\ Precedes("up", "saveRecord")

\* the activation command runs in the directory that was created and copied into
SameDirectory ==
    \A i \in DOMAIN trace :
        trace[i].stage = "up" =>
            \A j \in 1..(i - 1) :
                trace[j].stage \in {"mkdir", "rsync", "rsyncEnv"} => trace[j].at = trace[i].at

\* C13: in one run login comes before every remote command, build and delivery
\* before remote directory creation, that before the transfer, the transfer before
\* activation, activation before the record write; and activation runs in exactly
\* the directory that was created and that the transfer targeted.
C13_SequentialSameDirectory == StagesInSequence /\ SameDirectory


\* where preview's rsync commands copy to
PreviewTarget == Resolve(PreviewUser, <<".", "/">> \o PreviewDir(Loaded.Name, deployHash))

\* C14: in preview, with env.file set in the record the encrypted artifact is
\* produced, copied to the preview directory and the activation is the sops-wrapped
\* command; with env.file empty no artifact is produced or copied and the
\* activation is the plain command; a run issues one activation command at most.
C14_SecretHandling ==
    cmd = "preview" /\ Ran("handleEnv") =>
        LET configured == Loaded.EnvFile # EmptyStr
        IN  /\ configured /\ Succeeded("handleEnv") /\ ~Exited =>
                   files[EncryptedPath] = <<Encrypted(Loaded.EnvFile)>>
            /\ ~configured =>
                   /\ files[EncryptedPath] \in {NoFile, files0[EncryptedPath]}
                   /\ \A i \in DOMAIN trace :
                          trace[i].arg # "encrypt" /\ trace[i].stage # "rsyncEnv"
            /\ \A i \in DOMAIN trace :
                   trace[i].stage = "up" =>
                       /\ trace[i].arg = IF configured THEN "sops" ELSE "plain"
                       /\ configured =>
                              /\ trace[i - 1].stage = "rsyncEnv"
                              /\ trace[i - 1].at = PreviewTarget
                              /\ trace[i - 1].err = "" =>
                                     HasFile(remoteFiles, PreviewTarget, EncryptedPath)
            /\ Cardinality({i \in DOMAIN trace : trace[i].stage = "up"}) <= 1

\* C14 witness: a preview with an env file has been activated under sops
C14_Witness ==
    /\ cmd = "preview" /\ Ran("handleEnv") /\ Loaded.EnvFile # EmptyStr
    /\ \E i \in DOMAIN trace : trace[i].stage = "up" /\ trace[i].arg = "sops" /\ trace[i].err = ""


\* a copy of this run failed
TransferFailed ==
    \E i \in DOMAIN trace : trace[i].stage \in {"rsync", "rsyncEnv"} /\ trace[i].err # ""

\* C15: a failed copy of docker-compose.yaml or encrypted.env does not end the
\* run: the activation command is the next thing issued, and when it succeeds the
\* record is written and the run ends with status 0 like a run whose copies worked.
C15_TransferBestEffort ==
    /\ \A i \in DOMAIN trace :
           /\ trace[i].stage = "rsync" /\ trace[i].err # "" =>
                  IF i = Len(trace) THEN pc = "up"
                  ELSE trace[i + 1].stage \in {"rsyncEnv", "up"}
           /\ trace[i].stage = "rsyncEnv" =>
                  i < Len(trace) /\ trace[i + 1].stage = "up"
    /\ TransferFailed /\ Succeeded("up") =>
           /\ pc \in {"saveRecord", "return", "exited"}
           /\ Exited => exitCode = 0 /\ Ran("saveRecord")
           /\ Saved /\ cmd = "launch" => Persisted.url = appDomain
           /\ Saved /\ cmd = "preview" => deployHash \in DOMAIN Persisted.previewEnvironments

\* C15 witness: a run whose copy failed was activated, wrote the record and ended
\* with status 0
C15_Witness == TransferFailed /\ Succeeded("up") /\ Saved /\ Exited /\ exitCode = 0


\* the service name, the host and the port one run resolves for its document
ResolvedKey == IF cmd = "launch" THEN appName ELSE Loaded.Name \o <<"-">> \o deployHash
ResolvedHost == IF cmd = "launch" THEN appDomain ELSE deployHash \o <<".">> \o Loaded.Url
ResolvedPort == IF cmd = "launch" THEN appPort ELSE Sprint(Loaded.Port)

\* C16: the compose document of a launch or a preview has one service, keyed by
\* the resolved service name, with six labels in this order: enable, host rule on
\* the resolved host, load-balancer port, tls, certificate resolver, network; the
\* router and service names in the labels are the key; the networks map holds the
\* shared network alone, marked external.  The document is this function of the
\* key, the host and the port, so equal inputs give equal documents, and the file
\* written carries the same labels.
C16_SixLabelDocument ==
    newDockerCompose # <<>> =>
        LET doc == newDockerCompose[1]
            k == ResolvedKey
            svc == doc.Services[k]
        IN  /\ DOMAIN doc.Services = {k}
            /\ Len(svc.Labels) = 6
            /\ svc.Labels[1] = <<"traefik.enable=true">>
            /\ svc.Labels[2] = <<"traefik.http.routers.">> \o k \o <<".rule=Host(", Backtick>>
                                   \o ResolvedHost \o <<Backtick, ")">>
            /\ svc.Labels[3] = <<"traefik.http.services.">> \o k
                                   \o <<".loadbalancer.server.port=">> \o ResolvedPort
            /\ svc.Labels[4] = <<"traefik.http.routers.">> \o k \o <<".tls=true">>
            /\ svc.Labels[5] = <<"traefik.http.routers.">> \o k \o <<".tls.certresolver=default">>
            /\ svc.Labels[6] = <<"traefik.docker.network=sidekick">>
            /\ svc.Networks = <<Network>>
            /\ DOMAIN doc.Networks = {Network}
            /\ doc.Networks[Network].External
            /\ Succeeded("writeCompose") /\ ~Exited =>
                   /\ DOMAIN files[ComposePath][1].services = {k}
                   /\ files[ComposePath][1].services[k].labels = svc.Labels
                   /\ files[ComposePath][1].networks = [n \in {Network} |-> [external |-> TRUE]]

\* C16 witness: a preview of a recorded app, run after another deploy, has
\* written its document and not yet removed it
C16_Witness ==
    /\ cmd = "preview" /\ newDockerCompose # <<>> /\ Succeeded("writeCompose")
    /\ Loaded.Name # EmptyStr /\ runs = 2 /\ ~Exited


\* C17: once a launch or a preview has written the record, its lastDeployedAt is
\* the time of that run.
C17_LastDeployedAtUpdated ==
    Saved => Field(Persisted, "lastDeployedAt", EmptyStr) = FormatUnixDate(now)

\* the revisions git can report
Hashes == { TrimNewline(h) : h \in HashOutputs }

\* the directories a deployment of app n keeps its files in, for either remote
\* user and for a path given with or without a leading "./"
PrimaryDirsOf(n) ==
    { Resolve(u, pre \o n) : u \in {LaunchUser, PreviewUser}, pre \in {EmptyStr, <<".", "/">>} }

\* the directories of the preview of revision h of app n, likewise
RevisionDirsOf(n, h) ==
    { Resolve(u, pre \o n \o <<"/", "p", "r", "e", "v", "i", "e", "w", "/">> \o h) :
        u \in {LaunchUser, PreviewUser}, pre \in {EmptyStr, <<".", "/">>} }

\* the host rule label of service k on a host
HostRule(k, host) ==
    <<"traefik.http.routers.">> \o k \o <<".rule=Host(", Backtick>> \o host \o <<Backtick, ")">>

\* C18: a preview of revision h of app n uses a service name that is neither n nor
\* the name of the preview of another revision, a host that is neither the host of
\* the primary deployment nor that of another revision, and every remote
\* directory it makes, copies into or activates is neither the directory of the
\* primary deployment nor that of another revision; what lies in the directory of
\* another revision is still that revision's service alone.
C18_PreviewIsolation ==
    cmd = "preview" /\ Ran("gitHash") /\ deployHash # EmptyStr =>
        LET n == Loaded.Name
            h == deployHash
            k == n \o <<"-">> \o h
        IN  /\ h \in Hashes
            /\ \A h2 \in Hashes \ {h} :
                /\ newDockerCompose # <<>> =>
                       /\ DOMAIN newDockerCompose[1].Services \cap {n, n \o <<"-">> \o h2} = {}
                       /\ BuiltService.Labels[2] \notin
                              { HostRule(k, Loaded.Url), HostRule(k, h2 \o <<".">> \o Loaded.Url) }
                /\ \A i \in DOMAIN trace :
                       trace[i].stage \in {"mkdir", "rsync", "rsyncEnv", "up"} =>
                           trace[i].at \notin PrimaryDirsOf(n) \cup RevisionDirsOf(n, h2)
                /\ \A d \in PrimaryDirsOf(n) \cup RevisionDirsOf(n, h2) :
                       k \notin ServicesAt(remoteFiles, d)
                /\ \A d \in RevisionDirsOf(n, h2) :
                       ServicesAt(remoteFiles, d) \subseteq {n \o <<"-">> \o h2}

\* C18 witness: a preview of one revision has been delivered and activated while
\* the preview of another revision of the same app lies in its own directory
C18_Witness ==
    /\ cmd = "preview" /\ Succeeded("rsync") /\ Succeeded("up") /\ Loaded.Name # EmptyStr
    /\ \E h2 \in Hashes \ {deployHash} :
           \E d \in RevisionDirsOf(Loaded.Name, h2) : HasFile(remoteFiles, d, ComposePath)

\* C19: once a preview has written the record, its name, image, port, url,
\* createdAt and env.file are those the run loaded from the record at its start.
C19_PreviewFrame ==
    cmd = "preview" /\ Saved =>
        LET after == UnmarshalAppConfig(Persisted)
        IN  /\ after.Name = Loaded.Name
            /\ after.Image = Loaded.Image
            /\ after.Port = Loaded.Port
            /\ after.Url = Loaded.Url
            /\ after.CreatedAt = Loaded.CreatedAt
            /\ after.EnvFile = Loaded.EnvFile

\* C19 witness: a preview of a record with a name, a port and an env file has
\* written the record with the entry of its revision
C19_Witness ==
    /\ cmd = "preview" /\ Saved /\ Exited /\ exitCode = 0
    /\ Loaded.Name # EmptyStr /\ Loaded.Port # 0 /\ Loaded.EnvFile # EmptyStr
    /\ deployHash \in DOMAIN Persisted.previewEnvironments

====
